---- MODULE Spec2Model ----
(***************************************************************************)
(* Wavefunction algebra and domain-integration engine of qwaviz            *)
(* (src/src/framework): Field, Domain/SubDomain, WFOperation, WFKet,       *)
(* WFBra and the inner product WFBra::apply.                               *)
(*                                                                         *)
(* Numbers.  f32 coordinates are modelled by integers with the IEEE        *)
(* specials kept: every finite value v has -INF < v < INF, INF and -INF    *)
(* are the infinities, NAN compares false with everything, and a finite    *)
(* sum that leaves the finite window saturates to an infinity.  i32        *)
(* coordinates are integers.  Complex32 values are pairs <<re, im>> of     *)
(* integers with exact arithmetic: rounding is not modelled.               *)
(***************************************************************************)
EXTENDS Integers, Sequences, FiniteSets, TLC

VARIABLES sig, t, bra, k1, k2, res, op, applied, val, dom, fw, fx, fval,
          cons, cdom, probe, px, pin, ppts, itst, itv, carg, cpre,
          sys, call, nlo, nhi, out, rc, et,
          pstate, queue, held, acc, pval,
          fkind, finp, fout,
          da, db, dc, dcall, dperm, dout

\* The subdomain under test: the constructor that made it (cons), the
\* subdomain (cdom) and the last query on it (probe, px, pin, ppts).
\* A step-by-step iteration of it: the iterator's progress (itst) and value
\* field (itv); the argument of the call that built cdom (carg) and the
\* subdomain the call was made on (cpre).
itervars == <<itst, itv, carg, cpre>>
domvars == <<cons, cdom, probe, px, pin, ppts, itervars>>

\* The physical system: its parameters (sys), the last call on it (call)
\* with its index or index range (nlo, nhi) and outcome (out), the
\* coefficients of a re-projection (rc) and the time of an evaluation (et).
sysvars == <<sys, call, nlo, nhi, out, rc, et>>

\* The parallel inner product: its progress (pstate), the sample points no
\* worker has taken yet (queue), the point each worker holds (held), each
\* worker's partial sum (acc) and the reduced value (pval).
parvars == <<pstate, queue, held, acc, pval>>

\* Field inversion: the field (fkind), the value (finp), the result (fout).
fieldvars == <<fkind, finp, fout>>

\* What the algebra and inner-product runs leave alone.
\* Subdomain algebra: three subdomains (da, db, dc), the call made on them
\* (dcall), the order they were passed in (dperm) and the result (dout).
algvars == <<da, db, dc, dcall, dperm, dout>>

aux == <<domvars, sysvars, parvars, fieldvars, algvars>>

vars == <<sig, t, bra, k1, k2, res, op, applied, val, dom, fw, fx, fval, aux>>

(***************************************************************************)
(* Bounds of the model.                                                    *)
(***************************************************************************)
MaxX == 2
MaxStep == 2
MaxIter == MaxX + 3
MaxN == 2
MaxField == 3

Times == {0, 1}
Scalars == {<<2, 0>>, <<0, 1>>, <<1, 1>>}
XProbe == (0 - 1)..(MaxX + 1)

(***************************************************************************)
(* Domain: f32 and i32 coordinates (core/domain.rs).                       *)
(***************************************************************************)
INF == 1000
NAN == INF + 1
I32Max == 2147483647
I32Min == (0 - I32Max) - 1

Signatures == {"WF1D", "WFFinite"}

DomainFirst == IF sig = "WF1D" THEN 0 - INF ELSE I32Min
DomainLast == IF sig = "WF1D" THEN INF ELSE I32Max
DomainZero == 0

F32Add(a, b) ==
    IF a = NAN \/ b = NAN THEN NAN
    ELSE IF (a = INF /\ b = 0 - INF) \/ (a = 0 - INF /\ b = INF) THEN NAN
    ELSE IF a = INF \/ b = INF THEN INF
    ELSE IF a = 0 - INF \/ b = 0 - INF THEN 0 - INF
    ELSE IF a + b >= INF THEN INF
    ELSE IF a + b <= 0 - INF THEN 0 - INF
    ELSE a + b

I32Add(a, b) ==
    IF b > 0 /\ a > I32Max - b THEN ((a - I32Max) - 1) + (b + I32Min)
    ELSE IF b < 0 /\ a < I32Min - b THEN ((a - I32Min) + 1) + (b + I32Max)
    ELSE a + b

\* a + b leaves the i32 range: a debug build panics, a release build wraps.
I32Overflows(a, b) == (b > 0 /\ a > I32Max - b) \/ (b < 0 /\ a < I32Min - b)

DomAdd(a, b) == IF sig = "WF1D" THEN F32Add(a, b) ELSE I32Add(a, b)
DomNeg(a) == IF sig = "WF1D" /\ a = NAN THEN NAN ELSE 0 - a
DomSub(a, b) == DomAdd(a, DomNeg(b))

DomLt(a, b) == IF sig = "WF1D" THEN a # NAN /\ b # NAN /\ a < b ELSE a < b
DomGt(a, b) == DomLt(b, a)
DomLe(a, b) == IF sig = "WF1D" THEN a # NAN /\ b # NAN /\ a <= b ELSE a <= b

(***************************************************************************)
(* Field: Complex32 (fields.rs), as pairs <<re, im>>.                      *)
(***************************************************************************)
CZero == <<0, 0>>
COne == <<1, 0>>
CAdd(a, b) == <<a[1] + b[1], a[2] + b[2]>>
CSub(a, b) == <<a[1] - b[1], a[2] - b[2]>>
CMul(a, b) == <<a[1] * b[1] - a[2] * b[2], a[1] * b[2] + a[2] * b[1]>>
CNeg(a) == <<0 - a[1], 0 - a[2]>>
\* Mutant of CConj: the imaginary part is dropped.
CConjDropIm(a) == <<a[1], 0>>
CConj(a) == <<a[1], 0 - a[2]>>

\* f32 multiplication with the IEEE specials: NaN propagates, an infinity
\* times zero is NaN, an infinity times anything else keeps the sign rule.
F32Mul(a, b) ==
    IF a = NAN \/ b = NAN THEN NAN
    ELSE IF a \in {INF, 0 - INF} \/ b \in {INF, 0 - INF}
         THEN (IF a = 0 \/ b = 0 THEN NAN
               ELSE IF (a > 0) = (b > 0) THEN INF ELSE 0 - INF)
    ELSE IF a * b >= INF THEN INF
    ELSE IF a * b <= 0 - INF THEN 0 - INF
    ELSE a * b

\* WFSignature::mul_to_codomain: a coordinate times a field value.  The
\* coordinate is the only way an infinity enters the field, and the product
\* is never combined further when it does (an infinite step gives at most
\* one sample point), so the other field operations stay exact.
MulToCodomain(a, b) == <<F32Mul(a, b[1]), F32Mul(a, b[2])>>

(***************************************************************************)
(* SubDomain1D<f32> is a record [lower, upper, step_size]; FiniteSubDomain *)
(* is a record [min_idx, max_idx].                                         *)
(***************************************************************************)
IsFinite(d) == "min_idx" \in DOMAIN d

Lower(d) == IF IsFinite(d) THEN d.min_idx ELSE d.lower
Upper(d) == IF IsFinite(d) THEN d.max_idx ELSE d.upper

SubDomain1DContains(d, x) == DomLe(d.lower, x) /\ DomLe(x, d.upper)
FiniteSubDomainContains(d, x) == d.min_idx <= x /\ x <= d.max_idx
SDContains(d, x) ==
    IF IsFinite(d) THEN FiniteSubDomainContains(d, x) ELSE SubDomain1DContains(d, x)

SubDomain1DAll == [lower |-> DomainFirst, upper |-> DomainLast, step_size |-> DomainLast]
SubDomain1DNone == [lower |-> DomainZero, upper |-> DomainZero, step_size |-> DomainLast]
FiniteSubDomainAll == [min_idx |-> I32Min, max_idx |-> I32Max]
FiniteSubDomainNone == [min_idx |-> 0, max_idx |-> 0]
SDAll == IF sig = "WF1D" THEN SubDomain1DAll ELSE FiniteSubDomainAll
SDNone == IF sig = "WF1D" THEN SubDomain1DNone ELSE FiniteSubDomainNone

SDStepSize(d) == IF IsFinite(d) THEN 1 ELSE d.step_size

\* Mutant of SubDomain1DAdd: the upper bound is taken as in Mul.
SubDomain1DAddNarrow(a, b) ==
    [lower |-> IF DomLt(a.lower, b.lower) THEN a.lower ELSE b.lower,
     upper |-> IF DomLt(a.upper, b.upper) THEN a.upper ELSE b.upper,
     step_size |-> IF DomLt(a.step_size, b.step_size) THEN a.step_size ELSE b.step_size]

SubDomain1DAdd(a, b) ==
    [lower |-> IF DomLt(a.lower, b.lower) THEN a.lower ELSE b.lower,
     upper |-> IF DomGt(a.upper, b.upper) THEN a.upper ELSE b.upper,
     step_size |-> IF DomLt(a.step_size, b.step_size) THEN a.step_size ELSE b.step_size]

\* Mutant of SubDomain1DMul: the coarser step is kept.
SubDomain1DMulCoarse(a, b) ==
    [lower |-> IF DomGt(a.lower, b.lower) THEN a.lower ELSE b.lower,
     upper |-> IF DomLt(a.upper, b.upper) THEN a.upper ELSE b.upper,
     step_size |-> IF DomGt(a.step_size, b.step_size) THEN a.step_size ELSE b.step_size]

SubDomain1DMul(a, b) ==
    [lower |-> IF DomGt(a.lower, b.lower) THEN a.lower ELSE b.lower,
     upper |-> IF DomLt(a.upper, b.upper) THEN a.upper ELSE b.upper,
     step_size |-> IF DomLt(a.step_size, b.step_size) THEN a.step_size ELSE b.step_size]

\* Mutant of FiniteSubDomainAdd: the left operand's upper bound is kept.
FiniteSubDomainAddLeftUpper(a, b) ==
    [min_idx |-> IF a.min_idx < b.min_idx THEN a.min_idx ELSE b.min_idx,
     max_idx |-> a.max_idx]
FiniteSubDomainAdd(a, b) ==
    [min_idx |-> IF a.min_idx < b.min_idx THEN a.min_idx ELSE b.min_idx,
     max_idx |-> IF a.max_idx > b.max_idx THEN a.max_idx ELSE b.max_idx]

FiniteSubDomainMul(a, b) ==
    [min_idx |-> IF a.min_idx > b.min_idx THEN a.min_idx ELSE b.min_idx,
     max_idx |-> IF a.max_idx < b.max_idx THEN a.max_idx ELSE b.max_idx]

SubDomain1DTranslate(d, offset) ==
    [lower |-> DomAdd(d.lower, offset), upper |-> DomAdd(d.upper, offset),
     step_size |-> d.step_size]
FiniteSubDomainTranslate(d, offset) ==
    [min_idx |-> I32Add(d.min_idx, offset), max_idx |-> I32Add(d.max_idx, offset)]
SDTranslate(d, offset) ==
    IF IsFinite(d) THEN FiniteSubDomainTranslate(d, offset) ELSE SubDomain1DTranslate(d, offset)

SubDomain1DWithStepSize(d, step_size) ==
    [lower |-> d.lower, upper |-> d.upper, step_size |-> step_size]
\* FiniteSubDomain::with_step_size does not read its argument.
FiniteSubDomainWithStepSize(d, step_size) == [min_idx |-> d.min_idx, max_idx |-> d.max_idx]
SDWithStepSize(d, step_size) ==
    IF IsFinite(d) THEN FiniteSubDomainWithStepSize(d, step_size)
    ELSE SubDomain1DWithStepSize(d, step_size)

SDAdd(a, b) == IF IsFinite(a) THEN FiniteSubDomainAdd(a, b) ELSE SubDomain1DAdd(a, b)
SDMul(a, b) == IF IsFinite(a) THEN FiniteSubDomainMul(a, b) ELSE SubDomain1DMul(a, b)

\* Mutant of SubDomain1DIterNext: the bound is tested after the point is
\* yielded.
RECURSIVE SubDomain1DIterNextPostCheck(_, _, _, _)
SubDomain1DIterNextPostCheck(value, upper, step_size, fuel) ==
    IF fuel = 0 THEN <<>>
    ELSE <<value>> \o
         (IF DomGt(DomAdd(value, step_size), upper) THEN <<>>
          ELSE SubDomain1DIterNextPostCheck(DomAdd(value, step_size), upper, step_size, fuel - 1))

\* SubDomain1DIter::next, run until it returns None; at most `fuel` points.
RECURSIVE SubDomain1DIterNext(_, _, _, _)
SubDomain1DIterNext(value, upper, step_size, fuel) ==
    IF fuel = 0 \/ DomGt(value, upper) THEN <<>>
    ELSE <<value>> \o SubDomain1DIterNext(DomAdd(value, step_size), upper, step_size, fuel - 1)

\* SubDomain::iter, collected.
SDIter(d) == SubDomain1DIterNext(Lower(d), Upper(d), SDStepSize(d), MaxIter)

\* The iteration over d returns None within MaxIter points.
\* One call of SubDomain1DIter::next on the iterator (value, upper,
\* step_size): None, or Some(value) with value advanced by step_size.  When
\* the advance overflows i32 a debug build panics before anything is
\* returned and a release build wraps.
IterNextOutcomes(value, upper, step_size) ==
    IF DomGt(value, upper) THEN {[kind |-> "None", value |-> value]}
    ELSE IF sig = "WFFinite" /\ I32Overflows(value, step_size)
    THEN {[kind |-> "panic", value |-> value],
          [kind |-> "Some", item |-> value, value |-> I32Add(value, step_size)]}
    ELSE {[kind |-> "Some", item |-> value, value |-> DomAdd(value, step_size)]}

IterEnds(d) == Len(SDIter(d)) < MaxIter

(***************************************************************************)
(* WFOperation: the operation tree (braket/operations.rs).  A node is a    *)
(* record with a field kind.  A Function leaf holds the name of a closure; *)
(* LeafVal is the closure's value.  "zero" is |_, _| S::Out::zero(); the   *)
(* others stand for caller-supplied closures, total and complex-valued.    *)
(***************************************************************************)
LeafVal(f, x, tt) ==
    CASE f = "zero" -> CZero
      [] f = "one" -> COne
      [] f = "p" -> <<(x % 3) + 1, tt>>
      [] f = "q" -> <<1, (x % 3) - tt>>
      [] f = "r" -> <<2, (x % 3) + tt>>

\* sin(k * pi / 2) and cis(-k * pi / 2) for an integer k.
SinQuarter(k) == CASE k % 4 = 0 -> 0 [] k % 4 = 1 -> 1 [] k % 4 = 2 -> 0 [] k % 4 = 3 -> 0 - 1
CisQuarter(k) ==
    CASE k % 4 = 0 -> <<1, 0>> [] k % 4 = 1 -> <<0, 0 - 1>>
      [] k % 4 = 2 -> <<0 - 1, 0>> [] k % 4 = 3 -> <<0, 1>>

\* infinite_square_well.rs eigenfunction, for a well of width ISWWidth = 2
\* (coef = sqrt(2 / width) = 1, phase_x = n * x * pi / 2) and hbar / mass =
\* 4 / pi (energy * t / hbar = n * n * t * pi / 2), at integer x and t.
ISWWidth == 2
ISWEigenfunction(x, tt, n) ==
    <<SinQuarter(n * x) * CisQuarter(n * n * tt)[1], SinQuarter(n * x) * CisQuarter(n * n * tt)[2]>>

\* The closure of TwoState::energy_eigenstate, for hbar = 2 / pi
\* (energy * t / hbar = energy * t * pi / 2).
TwoStateClosure(env, x, tt) ==
    CMul(CisQuarter(env.energy * tt), IF x = 0 THEN env.eigenstate[1] ELSE env.eigenstate[2])

\* A closure that captures values: f names the code, env holds the captures.
ClosureVal(f, env, x, tt) ==
    CASE f = "two_state" -> TwoStateClosure(env, x, tt)
      [] f = "isw" -> ISWEigenfunction(x, tt, env.n)

WFFunc(f) == [kind |-> "Function", f |-> f]
WFClosure(f, env) == [kind |-> "Function", f |-> f, env |-> env]
WFOpSum(summands) == [kind |-> "Sum", fs |-> summands]
WFOpWeightedSum(summands) == [kind |-> "WeightedSum", fs |-> summands]
WFOpScale(s, o) == [kind |-> "Scale", c |-> s, f |-> o]
WFOpAdjoint(o) == [kind |-> "Adjoint", f |-> o]
WFOpTranslateSpace(offset, o) == [kind |-> "TranslateSpace", dx |-> offset, f |-> o]
WFOpTranslateTime(offset, o) == [kind |-> "TranslateTime", dt |-> offset, f |-> o]
\* Mutant of WFOpAdd: the right operand is lost.
WFOpAddLeftTwice(a, b) == WFOpSum(<<a, a>>)
WFOpAdd(a, b) == WFOpSum(<<a, b>>)
WFOpSub(a, b) == [kind |-> "Sub", f |-> a, g |-> b]
WFOpNeg(a) == [kind |-> "Neg", f |-> a]

RECURSIVE WFEval(_, _, _), EvalSum(_, _, _, _), EvalWeightedSum(_, _, _, _)
RECURSIVE EvalWeightedSumNoCoef(_, _, _, _)
\* Sum: fold(zero, +) over the children, left to right.
EvalSum(fs, n, x, tt) ==
    IF n = 0 THEN CZero
    ELSE CAdd(EvalSum(fs, n - 1, x, tt), WFEval(fs[n], x, tt))

\* Mutant of EvalWeightedSum: the coefficients are not multiplied in.
EvalWeightedSumNoCoef(fs, n, x, tt) ==
    IF n = 0 THEN CZero
    ELSE CAdd(EvalWeightedSumNoCoef(fs, n - 1, x, tt), WFEval(fs[n][2], x, tt))
\* WeightedSum: fold(zero, +) over coefficient * child, left to right.
EvalWeightedSum(fs, n, x, tt) ==
    IF n = 0 THEN CZero
    ELSE CAdd(EvalWeightedSum(fs, n - 1, x, tt), CMul(fs[n][1], WFEval(fs[n][2], x, tt)))

WFEval(o, x, tt) ==
    CASE o.kind = "Function" ->
            IF "env" \in DOMAIN o THEN ClosureVal(o.f, o.env, x, tt) ELSE LeafVal(o.f, x, tt)
      [] o.kind = "Sum" -> EvalSum(o.fs, Len(o.fs), x, tt)
      [] o.kind = "WeightedSum" -> EvalWeightedSum(o.fs, Len(o.fs), x, tt)
      [] o.kind = "Sub" -> CSub(WFEval(o.f, x, tt), WFEval(o.g, x, tt))
      [] o.kind = "Scale" -> CMul(o.c, WFEval(o.f, x, tt))
      [] o.kind = "Neg" -> CNeg(WFEval(o.f, x, tt))
      [] o.kind = "Adjoint" -> CConj(WFEval(o.f, x, tt))
      [] o.kind = "TranslateSpace" -> WFEval(o.f, DomSub(x, o.dx), tt)
      [] o.kind = "TranslateTime" -> WFEval(o.f, x, tt - o.dt)

(***************************************************************************)
(* WFKet and WFBra: records [wavefunction, subdomain]                      *)
(* (braket/wf_ket.rs, braket/wf_bra.rs).                                   *)
(***************************************************************************)
\* vectors.iter().map(subdomain).reduce(|a, b| a + b).unwrap_or_else(none)
RECURSIVE SDReduce(_, _)
SDReduce(vs, n) ==
    IF n = 0 THEN SDNone
    ELSE IF n = 1 THEN vs[1].subdomain
    ELSE SDAdd(SDReduce(vs, n - 1), vs[n].subdomain)

KetDefault == [wavefunction |-> WFFunc("zero"), subdomain |-> SDNone]
KetZero == [wavefunction |-> WFFunc("zero"), subdomain |-> SDAll]
\* Mutant of KetScale: the Scale node is not built.
KetScaleUnscaled(k, c) == k
KetScale(k, c) == [wavefunction |-> WFOpScale(c, k.wavefunction), subdomain |-> k.subdomain]
KetSum(vs) ==
    [wavefunction |-> WFOpSum([i \in 1..Len(vs) |-> vs[i].wavefunction]),
     subdomain |-> SDReduce(vs, Len(vs))]
\* Mutant of KetWeightedSum: every coefficient is replaced by one.
KetWeightedSumUnweighted(cs, vs) ==
    [wavefunction |-> WFOpWeightedSum([i \in 1..Len(vs) |-> <<COne, vs[i].wavefunction>>]),
     subdomain |-> SDReduce(vs, Len(vs))]
KetWeightedSum(cs, vs) ==
    [wavefunction |-> WFOpWeightedSum([i \in 1..Len(vs) |-> <<cs[i], vs[i].wavefunction>>]),
     subdomain |-> SDReduce(vs, Len(vs))]
\* Mutant of KetF: the subdomain is not consulted.
KetFUnmasked(k, x, tt) == WFEval(k.wavefunction, x, tt)
KetF(k, x, tt) ==
    IF SDContains(k.subdomain, x) THEN WFEval(k.wavefunction, x, tt) ELSE CZero
KetAdd(a, b) ==
    [wavefunction |-> WFOpAdd(a.wavefunction, b.wavefunction),
     subdomain |-> SDAdd(a.subdomain, b.subdomain)]
\* Mutant of KetSub: the subdomains are intersected.
KetSubIntersect(a, b) ==
    [wavefunction |-> WFOpSub(a.wavefunction, b.wavefunction),
     subdomain |-> SDMul(a.subdomain, b.subdomain)]
KetSub(a, b) ==
    [wavefunction |-> WFOpSub(a.wavefunction, b.wavefunction),
     subdomain |-> SDAdd(a.subdomain, b.subdomain)]
KetNeg(a) == [wavefunction |-> WFOpNeg(a.wavefunction), subdomain |-> a.subdomain]
\* Mutant of KetTranslateTime: the subdomain is shifted by the time offset.
KetTranslateTimeShifted(k, offset) ==
    [wavefunction |-> WFOpTranslateTime(offset, k.wavefunction),
     subdomain |-> SDTranslate(k.subdomain, offset)]
KetTranslateTime(k, offset) ==
    [wavefunction |-> WFOpTranslateTime(offset, k.wavefunction), subdomain |-> k.subdomain]
\* self.to_adjoint(): the ket is consumed.
KetToAdjoint(k) == [wavefunction |-> WFOpAdjoint(k.wavefunction), subdomain |-> k.subdomain]
\* Mutant of KetAdjoint: the tree is not wrapped in an Adjoint node.
KetAdjointNoConj(k) == [wavefunction |-> k.wavefunction, subdomain |-> k.subdomain]
\* WFKet::adjoint(&ket): the ket is borrowed, its tree and subdomain cloned.
KetAdjoint(k) == [wavefunction |-> WFOpAdjoint(k.wavefunction), subdomain |-> k.subdomain]

\* Mutant of KetTranslateSpace: the subdomain stays where it was.
KetTranslateSpaceFixedMask(k, offset) ==
    [wavefunction |-> WFOpTranslateSpace(offset, k.wavefunction), subdomain |-> k.subdomain]
KetTranslateSpace(k, offset) ==
    [wavefunction |-> WFOpTranslateSpace(offset, k.wavefunction),
     subdomain |-> SDTranslate(k.subdomain, offset)]

\* The adjoint of a ket's adjoint: WFBra has no adjoint of its own, so the
\* bra's tree is wrapped by WFOperation::adjoint and its subdomain kept.
AdjointTwice(k) ==
    [wavefunction |-> WFOpAdjoint(KetAdjoint(k).wavefunction),
     subdomain |-> KetAdjoint(k).subdomain]

BraZero == [wavefunction |-> WFFunc("zero"), subdomain |-> SDNone]
BraScale(b, c) == [wavefunction |-> WFOpScale(c, b.wavefunction), subdomain |-> b.subdomain]
BraSum(vs) ==
    [wavefunction |-> WFOpSum([i \in 1..Len(vs) |-> vs[i].wavefunction]),
     subdomain |-> SDReduce(vs, Len(vs))]
BraWeightedSum(cs, vs) ==
    [wavefunction |-> WFOpWeightedSum([i \in 1..Len(vs) |-> <<cs[i], vs[i].wavefunction>>]),
     subdomain |-> SDReduce(vs, Len(vs))]
BraF(b, x, tt) ==
    IF SDContains(b.subdomain, x) THEN WFEval(b.wavefunction, x, tt) ELSE CZero
BraAdd(a, b) ==
    [wavefunction |-> WFOpAdd(a.wavefunction, b.wavefunction),
     subdomain |-> SDAdd(a.subdomain, b.subdomain)]
BraSub(a, b) ==
    [wavefunction |-> WFOpSub(a.wavefunction, b.wavefunction),
     subdomain |-> SDAdd(a.subdomain, b.subdomain)]

\* .reduce(|a, b| a + b).unwrap_or_else(S::Out::zero) over a sequence of terms
RECURSIVE ReduceAdd(_, _)
ReduceAdd(terms, n) ==
    IF n = 0 THEN CZero
    ELSE IF n = 1 THEN terms[1]
    ELSE CAdd(ReduceAdd(terms, n - 1), terms[n])

\* Mutant of BraApply: the integration domain is the union.
BraApplyUnion(b, k, tt) ==
    LET domain == SDAdd(k.subdomain, b.subdomain)
        pts == SDIter(domain)
        terms == [i \in 1..Len(pts) |->
                    MulToCodomain(SDStepSize(domain),
                                  CMul(BraF(b, pts[i], tt), KetF(k, pts[i], tt)))]
    IN  ReduceAdd(terms, Len(terms))

\* WFBra::apply (serial): the inner product of bra b and ket k at time tt.
BraApply(b, k, tt) ==
    LET domain == SDMul(k.subdomain, b.subdomain)
        pts == SDIter(domain)
        terms == [i \in 1..Len(pts) |->
                    MulToCodomain(SDStepSize(domain),
                                  CMul(BraF(b, pts[i], tt), KetF(k, pts[i], tt)))]
    IN  ReduceAdd(terms, Len(terms))

\* Mutant of KetNormSqr: the ket is applied to itself without the adjoint.
KetNormSqrNoAdjoint(k, tt) == BraApply(k, k, tt)
KetNormSqr(k, tt) == BraApply(KetAdjoint(k), k, tt)

(***************************************************************************)
(* The state: a signature, an evaluation time, a bra, two kets, the        *)
(* result res of the last algebraic operation (op names it and its         *)
(* arguments), the last inner product (applied, val, dom) and the last     *)
(* pointwise evaluation (fw, fx, fval).                                    *)
(***************************************************************************)
SubDomains ==
    IF sig = "WF1D"
    THEN {[lower |-> l, upper |-> u, step_size |-> s] :
            l \in 0..MaxX, u \in 0..MaxX, s \in 1..MaxStep}
    ELSE {[min_idx |-> l, max_idx |-> u] : l \in 0..MaxX, u \in 0..MaxX}

KetLeaves == {"p", "q"}

NoOp == [name |-> "none", cs |-> <<>>, args |-> <<>>]

\* No subdomain has been constructed or queried.
IdleDom ==
    /\ cons = "unset"
    /\ cdom = SDNone
    /\ probe = "none"
    /\ px = 0
    /\ pin = FALSE
    /\ ppts = <<>>
    /\ itst = "idle"
    /\ itv = 0
    /\ carg = 0
    /\ cpre = SDNone

\* No system has been set up or called.
IdleSys ==
    /\ sys = [kind |-> "none"]
    /\ call = "none"
    /\ nlo = 0
    /\ nhi = 0
    /\ out = [kind |-> "none"]
    /\ rc = <<>>
    /\ et = 0

\* No parallel inner product has been started.
IdlePar ==
    /\ pstate = "idle"
    /\ queue = <<>>
    /\ held = <<>>
    /\ acc = <<>>
    /\ pval = <<0, 0>>

\* No field value has been inverted.
IdleField ==
    /\ fkind = "none"
    /\ finp = 0
    /\ fout = [kind |-> "unset"]

\* No subdomains have been combined.
IdleAlg ==
    /\ da = SDNone
    /\ db = SDNone
    /\ dc = SDNone
    /\ dcall = "none"
    /\ dperm = <<>>
    /\ dout = SDNone

InitCommon ==
    /\ sig \in Signatures
    /\ IdleDom
    /\ IdleSys
    /\ IdlePar
    /\ IdleField
    /\ IdleAlg
    /\ t \in Times
    /\ k1 \in {[wavefunction |-> WFFunc(f), subdomain |-> d] :
                 f \in KetLeaves, d \in {e \in SubDomains : Lower(e) <= Upper(e)}}
    /\ k2 \in {[wavefunction |-> WFFunc("q"), subdomain |-> d] :
                 d \in {e \in SubDomains : Lower(e) <= Upper(e)}}
    /\ res = KetDefault
    /\ op = NoOp
    /\ applied = "none"
    /\ val = CZero
    /\ dom = SDNone
    /\ fw = "none"
    /\ fx = 0
    /\ fval = CZero

\* Inner-product runs: the bra is any bra over a closure.
Init ==
    /\ InitCommon
    /\ bra \in {[wavefunction |-> WFFunc("r"), subdomain |-> d] :
                  d \in {e \in SubDomains : Lower(e) <= Upper(e)}}

\* Pointwise runs: the bra is the adjoint of the second ket.
InitPoint ==
    /\ InitCommon
    /\ bra = KetAdjoint(k2)

\* The objects an operation or an evaluation can name.
Obj(w) ==
    CASE w = "bra" -> bra
      [] w = "k1" -> k1
      [] w = "k2" -> k2
      [] w = "k1adj" -> KetAdjoint(k1)
      [] w = "k1+k2" -> KetAdd(k1, k2)
      [] w = "i*k1" -> KetScale(k1, <<0, 1>>)
      [] w = "k1+0" -> KetAdd(k1, KetZero)
      [] w = "res" -> res

Objs(ws) == [i \in 1..Len(ws) |-> Obj(ws[i])]

BraOps == {"bra_add", "bra_sub", "bra_sum", "bra_weighted_sum", "adjoint", "to_adjoint"}

Build(r, name, cs, args) ==
    /\ op = NoOp
    /\ applied = "none"
    /\ fw = "none"
    /\ res' = r
    /\ op' = [name |-> name, cs |-> cs, args |-> args]
    /\ UNCHANGED <<sig, t, bra, k1, k2, applied, val, dom, fw, fx, fval, aux>>

AddAct == Build(KetAdd(k1, k2), "add", <<>>, <<"k1", "k2">>)
SubAct == Build(KetSub(k1, k2), "sub", <<>>, <<"k1", "k2">>)
NegAct == Build(KetNeg(k1), "neg", <<>>, <<"k1">>)
ScaleAct == \E c \in Scalars : Build(KetScale(k1, c), "scale", <<c>>, <<"k1">>)

KetArgLists == {<<>>, <<"k1">>, <<"k1", "k2">>, <<"k2", "k1">>}
BraArgLists == {<<>>, <<"bra">>, <<"bra", "k1adj">>}
CoefLists(n) == IF n = 0 THEN {<<>>} ELSE IF n = 1 THEN {<<c>> : c \in Scalars}
                ELSE {<<c, COne>> : c \in Scalars}

SumAct == \E ws \in KetArgLists : Build(KetSum(Objs(ws)), "sum", <<>>, ws)
WeightedSumAct ==
    \E ws \in KetArgLists : \E cs \in CoefLists(Len(ws)) :
        Build(KetWeightedSum(cs, Objs(ws)), "weighted_sum", cs, ws)

BraAddAct == Build(BraAdd(bra, KetAdjoint(k1)), "bra_add", <<>>, <<"bra", "k1adj">>)
BraSubAct == Build(BraSub(bra, KetAdjoint(k1)), "bra_sub", <<>>, <<"bra", "k1adj">>)
BraSumAct == \E ws \in BraArgLists : Build(BraSum(Objs(ws)), "bra_sum", <<>>, ws)
BraWeightedSumAct ==
    \E ws \in BraArgLists : \E cs \in CoefLists(Len(ws)) :
        Build(BraWeightedSum(cs, Objs(ws)), "bra_weighted_sum", cs, ws)

\* bra.apply(&ket, t) for ket one of k1, k2 and the result of the operation.
ApplyAct ==
    \E w \in {"k1", "k2", "res"} :
        /\ applied = "none"
        /\ w = "res" => (op.name # "none" /\ op.name \notin BraOps)
        /\ IterEnds(SDMul(Obj(w).subdomain, bra.subdomain))
        /\ applied' = w
        /\ dom' = SDMul(Obj(w).subdomain, bra.subdomain)
        /\ val' = BraApply(bra, Obj(w), t)
        /\ UNCHANGED <<sig, t, bra, k1, k2, res, op, fw, fx, fval, aux>>

\* w.f(x, t) for w one of the bra, the kets and the result of the operation.
EvalAct ==
    \E w \in {"bra", "k1", "k2", "res"} : \E x \in XProbe :
        /\ fw = "none"
        /\ w = "res" => op.name # "none"
        /\ fw' = w
        /\ fx' = x
        /\ fval' = IF w = "bra" \/ (w = "res" /\ op.name \in BraOps)
                   THEN BraF(Obj(w), x, t) ELSE KetF(Obj(w), x, t)
        /\ UNCHANGED <<sig, t, bra, k1, k2, res, op, applied, val, dom, aux>>

Next == AddAct \/ ScaleAct \/ ApplyAct

Spec == Init /\ [][Next]_vars

NextPoint ==
    \/ AddAct \/ SubAct \/ NegAct \/ ScaleAct \/ SumAct \/ WeightedSumAct
    \/ BraAddAct \/ BraSubAct \/ BraSumAct \/ BraWeightedSumAct
    \/ EvalAct

SpecPoint == InitPoint /\ [][NextPoint]_vars

(***************************************************************************)
(* Properties.                                                             *)
(***************************************************************************)
Min(a, b) == IF a < b THEN a ELSE b
Max(a, b) == IF a > b THEN a ELSE b

\* The points lo, lo + st, lo + 2 st, ... that are <= up.
GridPts(lo, up, st) == {x \in lo..up : (x - lo) % st = 0}

\* The sum of the values of fn over the set S.
RECURSIVE CSumFn(_, _)
CSumFn(fn, S) ==
    IF S = {} THEN CZero
    ELSE LET x == CHOOSE y \in S : TRUE IN CAdd(fn[x], CSumFn(fn, S \ {x}))

\* C1: b.apply(k, t) is the sum, over the grid points x of the intersection
\* D of the two subdomains (lower = the larger lower, upper = the smaller
\* upper, step = the smaller step), of D.step * b.f(x,t) * k.f(x,t).
C1_ApplyIsIntersectionSum ==
    applied # "none" =>
        LET k == Obj(applied)
            lo == Max(Lower(k.subdomain), Lower(bra.subdomain))
            up == Min(Upper(k.subdomain), Upper(bra.subdomain))
            st == Min(SDStepSize(k.subdomain), SDStepSize(bra.subdomain))
            pts == GridPts(lo, up, st)
        IN  /\ SDStepSize(dom) = st
            /\ val = CSumFn([x \in pts |->
                               MulToCodomain(st, CMul(BraF(bra, x, t), KetF(k, x, t)))], pts)

C1_Witness ==
    /\ applied = "k1"
    /\ Len(SDIter(dom)) >= 2
    /\ dom # k1.subdomain
    /\ dom # bra.subdomain
    /\ SDStepSize(k1.subdomain) # SDStepSize(bra.subdomain)
    /\ val # CZero

\* C2 (as stated): b.apply(k1 + k2, t) = b.apply(k1, t) + b.apply(k2, t) for
\* all kets k1 and k2, whatever their subdomains and step sizes.
C2_AdditiveForAllKets ==
    (op.name = "add" /\ applied = "res") =>
        val = CAdd(BraApply(bra, k1, t), BraApply(bra, k2, t))

\* C2 (amended): b.apply(k1 + k2, t) = b.apply(k1, t) + b.apply(k2, t) for
\* kets k1 and k2 that share one subdomain (same lower, upper and step).
C2_AdditiveOnSharedSubdomain ==
    (op.name = "add" /\ applied = "res" /\ k1.subdomain = k2.subdomain) =>
        val = CAdd(BraApply(bra, k1, t), BraApply(bra, k2, t))

C2_Witness ==
    /\ op.name = "add"
    /\ applied = "res"
    /\ k1.subdomain = k2.subdomain
    /\ k1.wavefunction # k2.wavefunction
    /\ Len(SDIter(dom)) >= 2
    /\ BraApply(bra, k1, t) # CZero
    /\ BraApply(bra, k2, t) # CZero

\* C3: b.apply(k.scale(c), t) = c * b.apply(k, t).
C3_HomogeneousInKet ==
    (op.name = "scale" /\ applied = "res") =>
        val = CMul(op.cs[1], BraApply(bra, k1, t))

C3_Witness ==
    /\ op.name = "scale"
    /\ applied = "res"
    /\ op.cs[1] = <<0, 1>>
    /\ Len(SDIter(dom)) >= 2
    /\ val # CZero

\* C4: when the subdomains of the bra and the ket are disjoint, the
\* intersection has lower > upper, iterating it yields no point and apply
\* returns the field's zero.
Disjoint(a, b) == Upper(a) < Lower(b) \/ Upper(b) < Lower(a)

C4_DisjointGivesZero ==
    (applied # "none" /\ Disjoint(Obj(applied).subdomain, bra.subdomain)) =>
        /\ Lower(dom) > Upper(dom)
        /\ SDIter(dom) = <<>>
        /\ val = CZero

C4_Witness ==
    /\ applied = "k1"
    /\ Disjoint(k1.subdomain, bra.subdomain)
    /\ Lower(k1.subdomain) < Upper(k1.subdomain)
    /\ WFEval(k1.wavefunction, Lower(dom), t) # CZero
    /\ WFEval(bra.wavefunction, Lower(dom), t) # CZero
    /\ val = CZero

\* C5: w.f(x, t) is the operation tree's value at (x, t) when
\* lower <= x <= upper and the field's zero otherwise, and contains(x)
\* holds exactly when lower <= x <= upper.
C5_SubdomainIsMask ==
    fw # "none" =>
        LET w == Obj(fw)
            inside == Lower(w.subdomain) <= fx /\ fx <= Upper(w.subdomain)
        IN  /\ SDContains(w.subdomain, fx) <=> inside
            /\ fval = IF inside THEN WFEval(w.wavefunction, fx, t) ELSE CZero

C5_Witness ==
    /\ fw = "k1"
    /\ fx = Upper(k1.subdomain) + 1
    /\ WFEval(k1.wavefunction, fx, t) # CZero
    /\ fval = CZero

\* C6: (a + b).f(x,t) = a.f(x,t) + b.f(x,t) and (a - b).f(x,t) =
\* a.f(x,t) - b.f(x,t) at every x, also where x lies in only one operand's
\* subdomain.
C6_SumsAreZeroPadded ==
    /\ (fw = "res" /\ op.name = "add") =>
           fval = CAdd(KetF(k1, fx, t), KetF(k2, fx, t))
    /\ (fw = "res" /\ op.name = "sub") =>
           fval = CSub(KetF(k1, fx, t), KetF(k2, fx, t))

\* C7: add and sub on kets and bras give the result the union subdomain:
\* lower = the smaller lower, upper = the larger upper, step = the smaller
\* step.
C7_AddSubUnionSubdomains ==
    op.name \in {"add", "sub", "bra_add", "bra_sub"} =>
        LET a == Obj(op.args[1]).subdomain
            b == Obj(op.args[2]).subdomain
        IN  /\ Lower(res.subdomain) = Min(Lower(a), Lower(b))
            /\ Upper(res.subdomain) = Max(Upper(a), Upper(b))
            /\ SDStepSize(res.subdomain) = Min(SDStepSize(a), SDStepSize(b))

C7_Witness ==
    /\ op.name = "sub"
    /\ Lower(k1.subdomain) < Lower(k2.subdomain)
    /\ Lower(k2.subdomain) <= Upper(k1.subdomain)
    /\ Upper(k1.subdomain) < Upper(k2.subdomain)
    /\ SDStepSize(k1.subdomain) > SDStepSize(k2.subdomain)
    /\ res.subdomain # k1.subdomain
    /\ res.subdomain # k2.subdomain

\* C8: A * B has lower = max of the lowers, upper = min of the uppers and
\* step = min of the steps.
C8_MulIsIntersection ==
    applied # "none" =>
        LET a == Obj(applied).subdomain
            b == bra.subdomain
        IN  /\ Lower(dom) = Max(Lower(a), Lower(b))
            /\ Upper(dom) = Min(Upper(a), Upper(b))
            /\ SDStepSize(dom) = Min(SDStepSize(a), SDStepSize(b))

C8_Witness ==
    /\ applied = "k2"
    /\ Lower(k2.subdomain) < Lower(bra.subdomain)
    /\ Upper(k2.subdomain) < Upper(bra.subdomain)
    /\ Lower(dom) <= Upper(dom)
    /\ SDStepSize(k2.subdomain) < SDStepSize(bra.subdomain)

\* C9: (A * B).contains(x) holds exactly when A.contains(x) and
\* B.contains(x) hold, and (A + B).contains(x) holds whenever A.contains(x)
\* or B.contains(x) holds.
C9_MembershipDistributes ==
    /\ applied # "none" =>
           \A x \in XProbe :
               SDContains(dom, x) <=>
                   (SDContains(Obj(applied).subdomain, x) /\ SDContains(bra.subdomain, x))
    /\ op.name = "add" =>
           \A x \in XProbe :
               (SDContains(k1.subdomain, x) \/ SDContains(k2.subdomain, x)) =>
                   SDContains(res.subdomain, x)

C9_Witness ==
    /\ op.name = "add"
    /\ applied = "res"
    /\ \E x \in XProbe : SDContains(k1.subdomain, x) /\ ~SDContains(k2.subdomain, x)
    /\ \E x \in XProbe : SDContains(k2.subdomain, x) /\ ~SDContains(k1.subdomain, x)
    /\ \E x \in XProbe : SDContains(res.subdomain, x) /\ ~SDContains(dom, x)
    /\ \E x \in XProbe : SDContains(dom, x)

\* C10: sum and weighted_sum of an empty list return the zero() element of
\* their type: the field-zero function over none() for bras and over all()
\* for kets.
C10_EmptySumIsZeroElement ==
    (op.name \in {"sum", "weighted_sum", "bra_sum", "bra_weighted_sum"} /\ op.args = <<>>) =>
        /\ \A x \in XProbe : WFEval(res.wavefunction, x, t) = CZero
        /\ res.subdomain = IF op.name \in BraOps THEN BraZero.subdomain
                           ELSE KetZero.subdomain

(***************************************************************************)
(* Subdomain runs: a subdomain is given by its fields or built by          *)
(* SubDomain::none(), then queried once with contains(x) or iter().        *)
(***************************************************************************)
\* No ket, bra, operation, inner product or evaluation is involved.
IdleCore ==
    /\ t = 0
    /\ bra = KetDefault
    /\ k1 = KetDefault
    /\ k2 = KetDefault
    /\ res = KetDefault
    /\ op = NoOp
    /\ applied = "none"
    /\ val = CZero
    /\ dom = SDNone
    /\ fw = "none"
    /\ fx = 0
    /\ fval = CZero

core == <<sig, t, bra, k1, k2, res, op, applied, val, dom, fw, fx, fval>>

InitDom ==
    /\ sig \in Signatures
    /\ IdleCore
    /\ cons = "input"
    /\ cdom \in SubDomains
    /\ probe = "none"
    /\ px = 0
    /\ pin = FALSE
    /\ ppts = <<>>
    /\ itst = "idle"
    /\ itv = 0
    /\ carg = 0
    /\ cpre = SDNone
    /\ IdleSys
    /\ IdlePar
    /\ IdleField
    /\ IdleAlg

\* SubDomain::none()
NoneAct ==
    /\ cons = "input"
    /\ probe = "none"
    /\ cons' = "none"
    /\ cdom' = SDNone
    /\ UNCHANGED <<core, algvars, probe, px, pin, ppts, itervars, sysvars, parvars, fieldvars>>

\* cdom.contains(x)
ContainsAct ==
    \E x \in XProbe :
        /\ probe = "none"
        /\ probe' = "contains"
        /\ px' = x
        /\ pin' = SDContains(cdom, x)
        /\ UNCHANGED <<core, algvars, cons, cdom, ppts, itervars, sysvars, parvars, fieldvars>>

\* cdom.iter().collect(), when the iteration ends
IterAct ==
    /\ probe = "none"
    /\ IterEnds(cdom)
    /\ probe' = "iter"
    /\ ppts' = SDIter(cdom)
    /\ UNCHANGED <<core, algvars, cons, cdom, px, pin, itervars, sysvars, parvars, fieldvars>>

NextDom == NoneAct \/ ContainsAct \/ IterAct

SpecDom == InitDom /\ [][NextDom]_vars

\* C11: SubDomain::none() is empty: for SubDomain1D and FiniteSubDomain,
\* none().contains(x) is false for every x and none().iter() yields no
\* point.
C11_NoneIsEmpty ==
    cons = "none" =>
        /\ probe = "contains" => pin = FALSE
        /\ probe = "iter" => ppts = <<>>

(***************************************************************************)
(* Ket runs: one of translate_space and the double adjoint is applied to   *)
(* a ket (a closure, a sum, a scaled closure, or a closure plus            *)
(* WFKet::zero(), whose subdomain is all()), and the result is evaluated   *)
(* pointwise.                                                              *)
(***************************************************************************)
Offsets == {0 - 1, 1, MaxX}
KetBases == {"k1", "k1+k2", "i*k1", "k1+0"}

\* k.translate_space(dx)
TranslateSpaceAct ==
    \E w \in KetBases : \E dx \in Offsets :
        Build(KetTranslateSpace(Obj(w), dx), "translate_space", <<dx>>, <<w>>)

\* the adjoint of WFKet::adjoint(&k)
AdjointTwiceAct ==
    \E w \in KetBases : Build(AdjointTwice(Obj(w)), "adjoint_twice", <<>>, <<w>>)

NextKet == TranslateSpaceAct \/ AdjointTwiceAct \/ EvalAct

SpecKet == InitPoint /\ [][NextKet]_vars

\* C12: the adjoint is an involution: adjoint(adjoint(op)) evaluates to the
\* value of op at every x and t, and the adjoint of the adjoint of a ket has
\* the ket's subdomain and the ket's value f(x, t) at every point.
C12_AdjointIsInvolution ==
    op.name = "adjoint_twice" =>
        LET k == Obj(op.args[1]) IN
        /\ res.subdomain = k.subdomain
        /\ fw = "res" =>
            /\ WFEval(res.wavefunction, fx, t) = WFEval(k.wavefunction, fx, t)
            /\ fval = KetF(k, fx, t)

\* The double adjoint of a sum was evaluated inside its subdomain at a point
\* where the value has an imaginary part.
C12_Witness ==
    /\ op.name = "adjoint_twice"
    /\ op.args = <<"k1+k2">>
    /\ fw = "res"
    /\ SDContains(res.subdomain, fx)
    /\ fval[2] # 0

\* a + dx is an i32.
FitsI32(a, dx) == IF dx >= 0 THEN a <= I32Max - dx ELSE a >= I32Min - dx

\* r is the coordinate a raised by dx: the IEEE sum for f32, the integer sum
\* for i32.
IsRaised(r, a, dx) ==
    IF sig = "WF1D" THEN r = F32Add(a, dx) ELSE (FitsI32(a, dx) /\ r = a + dx)

Panic == [kind |-> "panic"]
Ok(k) == [kind |-> "ket", ket |-> k]

Abs(a) == IF a < 0 THEN 0 - a ELSE a

\* WFKet::new(closure, subdomain)
KetNew(w, d) == [wavefunction |-> w, subdomain |-> d]

\* energy = mean_level + split, split = -+ sqrt((delta / 2)^2 + |coupling|^2)
TwoStateEnergy(s, n) ==
    ((s.level_1 + s.level_2) + (IF n = 0 THEN 0 - 1 ELSE 1) * Abs(s.level_1 - s.level_2)) \div 2

\* Mutant of TwoStateEnergyEigenstate: only negative indices are refused.
TwoStateEnergyEigenstateNoUpperCheck(s, n) ==
    IF n < 0 THEN Panic
    ELSE Ok(KetNew(WFClosure("two_state",
                     [energy |-> TwoStateEnergy(s, n),
                      eigenstate |-> IF n = 0 THEN <<CZero, COne>> ELSE <<COne, CZero>>]),
                   [min_idx |-> 0, max_idx |-> 1]))
TwoStateEnergyEigenstate(s, n) ==
    IF n < 0 \/ n > 1 THEN Panic
    ELSE Ok(KetNew(WFClosure("two_state",
                     [energy |-> TwoStateEnergy(s, n),
                      eigenstate |-> IF n = 0 THEN <<CZero, COne>> ELSE <<COne, CZero>>]),
                   [min_idx |-> 0, max_idx |-> 1]))

InfiniteSquareWellEigenstate(s, n) ==
    Ok([wavefunction |-> WFClosure("isw", [n |-> n]),
        subdomain |-> [lower |-> 0, upper |-> ISWWidth, step_size |-> s.step_size]])

HarmonicWellEigenstate(s, n) ==
    Ok([wavefunction |-> WFClosure("harmonic", [n |-> n]),
        subdomain |-> [lower |-> 0 - s.half_width, upper |-> s.half_width,
                       step_size |-> s.step_size]])

Eigenstate(s, n) ==
    CASE s.kind = "TwoState" -> TwoStateEnergyEigenstate(s, n)
      [] s.kind = "InfiniteSquareWell" -> InfiniteSquareWellEigenstate(s, n)
      [] s.kind = "HarmonicWell" -> HarmonicWellEigenstate(s, n)

\* Mutant of DiscreteSystemEvolution: the coefficients are taken at time
\* zero.
DiscreteSystemEvolutionAtZero(s, initial_state, t0, min_n, max_n) ==
    LET basis == [i \in 1..(max_n - min_n + 1) |-> Eigenstate(s, min_n + i - 1)]
    IN  IF \E i \in DOMAIN basis : basis[i].kind = "panic" THEN Panic
        ELSE Ok(KetWeightedSum(
                  [i \in DOMAIN basis |-> BraApply(KetAdjoint(basis[i].ket), initial_state, 0)],
                  [i \in DOMAIN basis |-> basis[i].ket]))
\* DiscreteSystem::evolution: (min_n..=max_n).map(..).collect(), then
\* weighted_sum; a panic of energy_eigenstate ends the call.
DiscreteSystemEvolution(s, initial_state, t0, min_n, max_n) ==
    LET basis == [i \in 1..(max_n - min_n + 1) |-> Eigenstate(s, min_n + i - 1)]
    IN  IF \E i \in DOMAIN basis : basis[i].kind = "panic" THEN Panic
        ELSE Ok(KetWeightedSum(
                  [i \in DOMAIN basis |-> BraApply(KetAdjoint(basis[i].ket), initial_state, t0)],
                  [i \in DOMAIN basis |-> basis[i].ket]))

\* Mutant of ConfinedPotentialEvolution: the result is confined to the
\* initial state's subdomain.
ConfinedPotentialEvolutionConfined(s, initial_state, t0, max_n) ==
    LET basis == [i \in 1..max_n |-> Eigenstate(s, i)]
        sum == KetWeightedSum(
                  [i \in DOMAIN basis |-> BraApply(KetAdjoint(basis[i].ket), initial_state, t0)],
                  [i \in DOMAIN basis |-> basis[i].ket])
    IN  Ok([wavefunction |-> sum.wavefunction,
            subdomain |-> SDMul(sum.subdomain, initial_state.subdomain)])
\* ConfinedPotential::evolution: the same over 1..=max_n.
ConfinedPotentialEvolution(s, initial_state, t0, max_n) ==
    LET basis == [i \in 1..max_n |-> Eigenstate(s, i)]
    IN  IF \E i \in DOMAIN basis : basis[i].kind = "panic" THEN Panic
        ELSE Ok(KetWeightedSum(
                  [i \in DOMAIN basis |-> BraApply(KetAdjoint(basis[i].ket), initial_state, t0)],
                  [i \in DOMAIN basis |-> basis[i].ket]))

Levels == {<<0, 1>>, <<1, 3>>, <<2, 1>>}
Systems ==
    {[kind |-> "TwoState", level_1 |-> l[1], level_2 |-> l[2]] : l \in Levels}
    \cup {[kind |-> "InfiniteSquareWell", step_size |-> s] : s \in 1..MaxStep}
    \cup {[kind |-> "HarmonicWell", half_width |-> 1, step_size |-> 1]}

InitSys ==
    /\ sys \in Systems
    /\ sig = IF sys.kind = "TwoState" THEN "WFFinite" ELSE "WF1D"
    /\ t \in Times
    /\ k1 \in {[wavefunction |-> WFFunc(f), subdomain |-> d] :
                 f \in KetLeaves, d \in {e \in SubDomains : Lower(e) <= Upper(e)}}
    /\ k2 = KetDefault
    /\ bra = KetDefault
    /\ res = KetDefault
    /\ op = NoOp
    /\ applied = "none"
    /\ val = CZero
    /\ dom = SDNone
    /\ fw = "none"
    /\ fx = 0
    /\ fval = CZero
    /\ IdleDom
    /\ IdlePar
    /\ IdleField
    /\ IdleAlg
    /\ call = "none"
    /\ nlo = 0
    /\ nhi = 0
    /\ out = [kind |-> "none"]
    /\ rc = <<>>
    /\ et = 0

\* The indices a caller can pass: i32 for a DiscreteSystem, usize for a
\* ConfinedPotential.
Indices == IF sys.kind = "TwoState" THEN (0 - 1)..MaxN ELSE 0..MaxN
FirstIndex == IF sys.kind = "TwoState" THEN nlo ELSE 1

\* sys.energy_eigenstate(n) / sys.eigenstate(n)
EigenstateAct ==
    \E n \in Indices :
        /\ call = "none"
        /\ call' = "eigenstate"
        /\ nlo' = n
        /\ nhi' = n
        /\ out' = Eigenstate(sys, n)
        /\ UNCHANGED <<core, algvars, domvars, parvars, fieldvars, sys, rc, et>>

\* sys.evolution(&k1, t, min_n, max_n) / sys.evolution(&k1, t, max_n)
EvolutionAct ==
    \E lo \in Indices : \E hi \in Indices :
        /\ call = "none"
        /\ sys.kind # "HarmonicWell"
        /\ sys.kind = "InfiniteSquareWell" => lo = 1
        /\ call' = "evolution"
        /\ nlo' = lo
        /\ nhi' = hi
        /\ out' = IF sys.kind = "TwoState"
                  THEN DiscreteSystemEvolution(sys, k1, t, lo, hi)
                  ELSE ConfinedPotentialEvolution(sys, k1, t, hi)
        /\ UNCHANGED <<core, algvars, domvars, parvars, fieldvars, sys, rc, et>>

\* the evolved ket's f(x, tt)
EvolvedFAct ==
    \E x \in XProbe : \E tt \in Times :
        /\ call = "evolution"
        /\ out.kind = "ket"
        /\ fw = "none"
        /\ fw' = "evolved"
        /\ fx' = x
        /\ et' = tt
        /\ fval' = KetF(out.ket, x, tt)
        /\ UNCHANGED <<sig, t, bra, k1, k2, res, op, applied, val, dom, domvars, algvars,
                       parvars, fieldvars, sys, call, nlo, nhi, out, rc>>

\* adjoint(eigenstate(n)).apply(&evolved, t) for every n of the range
ReprojectAct ==
    /\ call = "evolution"
    /\ out.kind = "ket"
    /\ fw = "none"
    /\ call' = "reproject"
    /\ rc' = [i \in 1..(nhi - FirstIndex + 1) |->
                BraApply(KetAdjoint(Eigenstate(sys, FirstIndex + i - 1).ket), out.ket, t)]
    /\ UNCHANGED <<core, algvars, domvars, parvars, fieldvars, sys, nlo, nhi, out, et>>

NextSys == EigenstateAct \/ EvolutionAct \/ EvolvedFAct \/ ReprojectAct

SpecSys == InitSys /\ [][NextSys]_vars

\* C14: TwoState::energy_eigenstate(n) panics for every n < 0 and every
\* n > 1 and returns a ket only for n in {0, 1}; so DiscreteSystem::evolution
\* over a non-empty index range not contained in [0, 1] panics instead of
\* returning a ket.
C14_TwoStateIndexChecked ==
    sys.kind = "TwoState" =>
        /\ call = "eigenstate" =>
            /\ (nlo < 0 \/ nlo > 1) => out.kind = "panic"
            /\ out.kind = "ket" <=> nlo \in {0, 1}
        /\ (call = "evolution" /\ nlo <= nhi /\ ~(0 <= nlo /\ nhi <= 1)) =>
            out.kind = "panic"

\* An evolution over the range 0..=2, whose last index is invalid, panicked.
C14_Witness ==
    /\ sys.kind = "TwoState"
    /\ call = "evolution"
    /\ nlo = 0
    /\ nhi = 2
    /\ out.kind = "panic"

\* C15: for InfiniteSquareWell and HarmonicWell, whose eigenstate indices
\* start at 1, eigenstate(0) aborts or returns an error: it never returns a
\* ket.
C15_EigenstateZeroRefused ==
    (sys.kind \in {"InfiniteSquareWell", "HarmonicWell"} /\ call = "eigenstate" /\ nlo = 0) =>
        out.kind # "ket"

\* The coefficient of index n: adjoint(eigenstate(n)).apply(k1, t).
Coef(n) == BraApply(KetAdjoint(Eigenstate(sys, n).ket), k1, t)

\* C16: evolution(k1, t, range) is the weighted sum, over the indices n of
\* the range in increasing order, of c_n * eigenstate(n) with
\* c_n = adjoint(eigenstate(n)).apply(k1, t); the coefficients are those of
\* time t whatever the time at which the result is evaluated.
C16_EvolutionIsWeightedSum ==
    (call \in {"evolution", "reproject"} /\ out.kind = "ket") =>
        LET n == Max(0, (nhi - FirstIndex) + 1)
            w == out.ket.wavefunction
            Term == [m \in FirstIndex..nhi |->
                       CMul(Coef(m), WFEval(Eigenstate(sys, m).ket.wavefunction, fx, et))]
        IN  /\ w.kind = "WeightedSum"
            /\ Len(w.fs) = n
            /\ \A i \in 1..n :
                  w.fs[i] = <<Coef((FirstIndex + i) - 1),
                              Eigenstate(sys, (FirstIndex + i) - 1).ket.wavefunction>>
            /\ fw = "evolved" =>
                  fval = IF SDContains(out.ket.subdomain, fx)
                         THEN CSumFn(Term, FirstIndex..nhi) ELSE CZero

\* An evolution at time 1 over two eigenstates, both with a coefficient other
\* than zero, was evaluated at time 0 inside its subdomain.
C16_Witness ==
    /\ call = "evolution"
    /\ out.kind = "ket"
    /\ nhi = FirstIndex + 1
    /\ t = 1
    /\ Coef(FirstIndex) # CZero
    /\ Coef(nhi) # CZero
    /\ fw = "evolved"
    /\ et = 0
    /\ SDContains(out.ket.subdomain, fx)
    /\ fval # CZero

\* The eigenstates of the range are orthonormal under the inner product.
Orthonormal ==
    \A m \in FirstIndex..nhi : \A n \in FirstIndex..nhi :
        BraApply(KetAdjoint(Eigenstate(sys, m).ket), Eigenstate(sys, n).ket, t)
            = IF m = n THEN COne ELSE CZero

\* C17: project-reconstruct-project is idempotent: when the eigenstates of
\* the range are orthonormal, re-projecting r = evolution(k1, t, range) on
\* each eigenstate(n) at t gives adjoint(eigenstate(n)).apply(k1, t).
C17_ReprojectionIsIdempotent ==
    (call = "reproject" /\ Orthonormal) =>
        /\ Len(rc) = Max(0, (nhi - FirstIndex) + 1)
        /\ \A i \in 1..Len(rc) : rc[i] = Coef((FirstIndex + i) - 1)

\* A re-projection over the two orthonormal eigenstates of a TwoState at
\* time 1, with both coefficients other than zero.
C17_Witness ==
    /\ call = "reproject"
    /\ sys.kind = "TwoState"
    /\ nlo = 0
    /\ nhi = 1
    /\ t = 1
    /\ Orthonormal
    /\ rc[1] # CZero
    /\ rc[2] # CZero

(***************************************************************************)
(* Norm runs: norm_sqr of a ket, of a scaled, negated or summed ket, and   *)
(* of WFKet::default(), which res holds until an operation replaces it.    *)
(***************************************************************************)
InitNorm ==
    /\ sig \in Signatures
    /\ t \in Times
    /\ k1 \in {[wavefunction |-> WFFunc(f), subdomain |-> d] :
                 f \in KetLeaves, d \in {e \in SubDomains : Lower(e) <= Upper(e)}}
    /\ k2 = KetDefault
    /\ bra = KetAdjoint(k1)
    /\ res = KetDefault
    /\ op = NoOp
    /\ applied = "none"
    /\ val = CZero
    /\ dom = SDNone
    /\ fw = "none"
    /\ fx = 0
    /\ fval = CZero
    /\ IdleDom
    /\ IdleSys
    /\ IdlePar
    /\ IdleField
    /\ IdleAlg

\* w.norm_sqr(t) for w one of k1 and res
NormSqrAct ==
    \E w \in {"k1", "res"} :
        /\ applied = "none"
        /\ IterEnds(SDMul(Obj(w).subdomain, Obj(w).subdomain))
        /\ applied' = w
        /\ dom' = SDMul(Obj(w).subdomain, Obj(w).subdomain)
        /\ val' = KetNormSqr(Obj(w), t)
        /\ UNCHANGED <<sig, t, bra, k1, k2, res, op, fw, fx, fval, aux>>

NextNorm == ScaleAct \/ NegAct \/ SumAct \/ NormSqrAct

SpecNorm == InitNorm /\ [][NextNorm]_vars

\* C18 as stated: k.norm_sqr(t) equals adjoint(k).apply(k, t), and for every
\* ket whose subdomain has a positive step size its imaginary part is zero
\* and its real part is not negative.
C18_NormSqrRealForPositiveStep ==
    applied # "none" =>
        LET k == Obj(applied) IN
        /\ val = BraApply(KetAdjoint(k), k, t)
        /\ DomGt(SDStepSize(k.subdomain), 0) =>
            (val[2] = 0 /\ val[1] # NAN /\ val[1] >= 0)

\* C18, amended: the same for every ket whose subdomain has a positive and
\* finite step size.
C18_NormSqrRealForFiniteStep ==
    applied # "none" =>
        LET k == Obj(applied) IN
        /\ val = BraApply(KetAdjoint(k), k, t)
        /\ (DomGt(SDStepSize(k.subdomain), 0) /\ DomLt(SDStepSize(k.subdomain), INF)) =>
            (val[2] = 0 /\ val[1] # NAN /\ val[1] >= 0)

\* norm_sqr was taken at time 1 of a ket scaled by 1 + i, over more than one
\* sample point, and is positive.
C18_Witness ==
    /\ applied = "res"
    /\ op.name = "scale"
    /\ op.cs = <<(<<1, 1>>)>>
    /\ t = 1
    /\ Len(SDIter(dom)) > 1
    /\ val[1] > 0

(***************************************************************************)
(* The parallel inner product (wf_bra.rs, feature par_braket):             *)
(* domain.iter().par_bridge().map(..).reduce(zero, +).  The iterator is    *)
(* shared: a worker takes the next point, maps it to its term and adds the *)
(* term to its partial sum, which starts at the identity zero; when no     *)
(* point is left the partial sums are combined.                            *)
(***************************************************************************)
Workers == {"w1", "w2"}

\* The closure of map: mul_to_codomain(step, bra.f(x, t)) * ket.f(x, t).
ParTerm(b, k, domain, x, tt) ==
    CMul(MulToCodomain(SDStepSize(domain), BraF(b, x, tt)), KetF(k, x, tt))

\* Mutant of ParCombine: the right partial sum is dropped.
ParCombineKeepLeft(a, b) == a
\* The closure of reduce: |a, b| a + b.
ParCombine(a, b) == CAdd(a, b)

InitPar ==
    /\ sig \in Signatures
    /\ t \in Times
    /\ bra \in {[wavefunction |-> WFFunc("r"), subdomain |-> d] :
                  d \in {e \in SubDomains : Lower(e) <= Upper(e)}}
    /\ k1 \in {[wavefunction |-> WFFunc(f), subdomain |-> d] :
                 f \in KetLeaves, d \in {e \in SubDomains : Lower(e) <= Upper(e)}}
    /\ k2 = KetDefault
    /\ res = KetDefault
    /\ op = NoOp
    /\ applied = "none"
    /\ val = CZero
    /\ dom = SDNone
    /\ fw = "none"
    /\ fx = 0
    /\ fval = CZero
    /\ IdleDom
    /\ IdleSys
    /\ IdlePar
    /\ IdleField
    /\ IdleAlg

\* bra.apply(&k1, t) begins: the integration domain and its iterator.
ParStartAct ==
    /\ pstate = "idle"
    /\ IterEnds(SDMul(k1.subdomain, bra.subdomain))
    /\ pstate' = "running"
    /\ dom' = SDMul(k1.subdomain, bra.subdomain)
    /\ queue' = SDIter(SDMul(k1.subdomain, bra.subdomain))
    /\ held' = [w \in Workers |-> <<>>]
    /\ acc' = [w \in Workers |-> CZero]
    /\ UNCHANGED <<sig, t, bra, k1, k2, res, op, applied, val, fw, fx, fval, algvars,
                   domvars, sysvars, fieldvars, pval>>

\* A worker takes the next point of the shared iterator.
TakeAct ==
    \E w \in Workers :
        /\ pstate = "running"
        /\ held[w] = <<>>
        /\ queue # <<>>
        /\ held' = [held EXCEPT ![w] = <<Head(queue)>>]
        /\ queue' = Tail(queue)
        /\ UNCHANGED <<core, algvars, domvars, sysvars, fieldvars, pstate, acc, pval>>

\* A worker maps the point it holds and adds the term to its partial sum.
MapAct ==
    \E w \in Workers :
        /\ pstate = "running"
        /\ held[w] # <<>>
        /\ acc' = [acc EXCEPT ![w] = ParCombine(acc[w], ParTerm(bra, k1, dom, held[w][1], t))]
        /\ held' = [held EXCEPT ![w] = <<>>]
        /\ UNCHANGED <<core, algvars, domvars, sysvars, fieldvars, pstate, queue, pval>>

\* The partial sums are combined, in either order.
ReduceAct ==
    \E a \in Workers : \E b \in Workers \ {a} :
        /\ pstate = "running"
        /\ queue = <<>>
        /\ \A w \in Workers : held[w] = <<>>
        /\ pval' = ParCombine(acc[a], acc[b])
        /\ pstate' = "done"
        /\ UNCHANGED <<core, algvars, domvars, sysvars, fieldvars, queue, held, acc>>

NextPar == ParStartAct \/ TakeAct \/ MapAct \/ ReduceAct

SpecPar == InitPar /\ [][NextPar]_vars

\* C19: the parallel inner product returns the value of the serial one for
\* every bra, ket and time, whatever order the workers take the sample
\* points and combine the partial sums in; no interleaving changes or loses
\* a term.
C19_ParallelEqualsSerial ==
    pstate = "done" => pval = BraApply(bra, k1, t)

\* A parallel inner product over three or more points ended with both
\* workers having contributed a partial sum.
C19_Witness ==
    /\ pstate = "done"
    /\ Len(SDIter(dom)) >= 3
    /\ acc["w1"] # CZero
    /\ acc["w2"] # CZero
    /\ pval # CZero

(***************************************************************************)
(* Field::inv (fields.rs).  The result is None or Some(v); the quotient v  *)
(* is kept exact as a record [num, den] standing for num / den.            *)
(***************************************************************************)
None == [kind |-> "None"]
Some(v) == [kind |-> "Some", inv |-> v]

F32IsZero(a) == a = 0
ComplexIsZero(a) == a = CZero

\* Mutant of F32Inv: zero is not tested for.
F32InvUnchecked(a) == Some([num |-> 1, den |-> a])
\* 1.0 / *self
F32Inv(a) == IF F32IsZero(a) THEN None ELSE Some([num |-> 1, den |-> a])

\* Complex::inv: (re / norm_sqr, -im / norm_sqr)
ComplexInv(a) ==
    IF ComplexIsZero(a) THEN None
    ELSE Some([num |-> <<a[1], 0 - a[2]>>, den |-> a[1] * a[1] + a[2] * a[2]])

FieldValues ==
    IF fkind = "f32" THEN (0 - MaxField)..MaxField
    ELSE ((0 - MaxField)..MaxField) \X ((0 - MaxField)..MaxField)

InitField ==
    /\ sig = "WF1D"
    /\ IdleCore
    /\ IdleDom
    /\ IdleSys
    /\ IdlePar
    /\ IdleAlg
    /\ fkind \in {"f32", "Complex32"}
    /\ finp \in FieldValues
    /\ fout = [kind |-> "unset"]

\* finp.inv()
InvAct ==
    /\ fout.kind = "unset"
    /\ fout' = IF fkind = "f32" THEN F32Inv(finp) ELSE ComplexInv(finp)
    /\ UNCHANGED <<core, algvars, domvars, sysvars, parvars, fkind, finp>>

NextField == InvAct

SpecField == InitField /\ [][NextField]_vars

\* C20: Field::inv returns None exactly when is_zero() is true and Some of
\* the multiplicative inverse otherwise, for the real and the complex field;
\* inverting zero gives a value, not a panic.
C20_InvIsNoneExactlyAtZero ==
    fout.kind # "unset" =>
        /\ fout.kind \in {"None", "Some"}
        /\ fout.kind = "None" <=> (IF fkind = "f32" THEN finp = 0 ELSE finp = <<0, 0>>)
        /\ fout.kind = "Some" =>
            /\ fout.inv.den # 0
            /\ IF fkind = "f32" THEN finp * fout.inv.num = fout.inv.den
               ELSE CMul(finp, fout.inv.num) = <<fout.inv.den, 0>>

\* A complex value with both parts other than zero was inverted.
C20_Witness ==
    /\ fkind = "Complex32"
    /\ finp[1] # 0
    /\ finp[2] # 0
    /\ fout.kind = "Some"

(***************************************************************************)
(* Vector-space runs: one of k + WFKet::zero(), scale, neg,                *)
(* translate_time, adjoint and to_adjoint is applied to the ket k1 and     *)
(* the result is evaluated pointwise.                                      *)
(***************************************************************************)
TimeOffsets == {0 - 1, 1}

\* k1 + WFKet::zero()
AddZeroAct == Build(KetAdd(k1, KetZero), "add_zero", <<>>, <<"k1">>)

\* k1.translate_time(dt)
TranslateTimeAct ==
    \E dt \in TimeOffsets :
        Build(KetTranslateTime(k1, dt), "translate_time", <<dt>>, <<"k1">>)

\* WFKet::adjoint(&k1)
AdjointAct == Build(KetAdjoint(k1), "adjoint", <<>>, <<"k1">>)

\* k1.clone().to_adjoint()
ToAdjointAct == Build(KetToAdjoint(k1), "to_adjoint", <<>>, <<"k1">>)

NextVec ==
    \/ AddZeroAct \/ ScaleAct \/ NegAct \/ TranslateTimeAct
    \/ AdjointAct \/ ToAdjointAct \/ EvalAct

SpecVec == InitPoint /\ [][NextVec]_vars

\* C21: WFKet::zero() is the additive identity: (k + zero()).f(x, t) equals
\* k.f(x, t) for every x and t, and so is zero at every x outside k's
\* subdomain.
C21_ZeroIsAdditiveIdentity ==
    (op.name = "add_zero" /\ fw = "res") => fval = KetF(k1, fx, t)

(***************************************************************************)
(* Quadrature runs: the bra and the ket k1 are the constant one over the   *)
(* same subdomain, and the bra is applied to k1 and to another ket.        *)
(***************************************************************************)
InitQuad ==
    /\ sig \in Signatures
    /\ IdleDom
    /\ IdleSys
    /\ IdlePar
    /\ IdleField
    /\ IdleAlg
    /\ t \in Times
    /\ k1 \in {[wavefunction |-> WFFunc("one"), subdomain |-> d] :
                 d \in {e \in SubDomains : Lower(e) <= Upper(e)}}
    /\ bra = k1
    /\ k2 \in {[wavefunction |-> WFFunc("q"), subdomain |-> d] :
                 d \in {e \in SubDomains : Lower(e) <= Upper(e)}}
    /\ res = KetDefault
    /\ op = NoOp
    /\ applied = "none"
    /\ val = CZero
    /\ dom = SDNone
    /\ fw = "none"
    /\ fx = 0
    /\ fval = CZero

NextQuad == ApplyAct \/ EvalAct

SpecQuad == InitQuad /\ [][NextQuad]_vars

\* C22: the inner product is a left-endpoint rectangle rule: for a bra and
\* a ket that are both the constant one on the same interval [lower, upper]
\* with a step s > 0 that divides upper - lower, apply returns exactly
\* upper - lower.
C22_RectangleRuleIsHalfOpen ==
    (applied = "k1" /\ (Upper(k1.subdomain) - Lower(k1.subdomain))
                           % SDStepSize(k1.subdomain) = 0)
        => val = <<Upper(k1.subdomain) - Lower(k1.subdomain), 0>>

(***************************************************************************)
(* Iterator runs: a subdomain is an input interval, all() or none(),       *)
(* optionally passed through one of with_step_size, translate, union and   *)
(* intersection; iter() is then called on it and next() is called          *)
(* on the iterator one step at a time.  At most MaxIter points are         *)
(* followed.                                                               *)
(***************************************************************************)
StepArgs == {0 - 1, 0, 1, MaxStep}
IterOffsets == IF sig = "WF1D" THEN {1, MaxX} ELSE {1, I32Max}
Operands == SubDomains \cup {SDAll, SDNone}
BaseCons == {"input", "all", "none"}

InitIter ==
    /\ sig \in Signatures
    /\ IdleCore
    /\ cons \in BaseCons
    /\ cdom \in (CASE cons = "input" -> SubDomains
                   [] cons = "all" -> {SDAll}
                   [] cons = "none" -> {SDNone})
    /\ probe = "none"
    /\ px = 0
    /\ pin = FALSE
    /\ ppts = <<>>
    /\ itst = "idle"
    /\ itv = 0
    /\ carg = 0
    /\ cpre = cdom
    /\ IdleSys
    /\ IdlePar
    /\ IdleField
    /\ IdleAlg

\* cdom is replaced by the result r of the call named name with argument a.
Rebuild(r, name, a) ==
    /\ cons \in BaseCons
    /\ itst = "idle"
    /\ cons' = name
    /\ carg' = a
    /\ cpre' = cdom
    /\ cdom' = r
    /\ UNCHANGED <<core, algvars, probe, px, pin, ppts, itst, itv, sysvars, parvars, fieldvars>>

\* cdom.with_step_size(s)
WithStepSizeAct ==
    \E s \in StepArgs : Rebuild(SDWithStepSize(cdom, s), "with_step_size", s)

\* cdom.translate(dx), for offsets that keep both bounds in range
TranslateAct ==
    \E dx \in IterOffsets :
        /\ sig = "WFFinite" =>
               (~I32Overflows(Lower(cdom), dx) /\ ~I32Overflows(Upper(cdom), dx))
        /\ Rebuild(SDTranslate(cdom, dx), "translate", dx)

\* cdom + e
UnionAct == \E e \in Operands : Rebuild(SDAdd(cdom, e), "union", 0)

\* cdom * e
IntersectAct == \E e \in Operands : Rebuild(SDMul(cdom, e), "intersection", 0)

\* cdom.iter()
IterNewAct ==
    /\ itst = "idle"
    /\ itst' = "running"
    /\ itv' = Lower(cdom)
    /\ ppts' = <<>>
    /\ UNCHANGED <<core, algvars, cons, cdom, probe, px, pin, carg, cpre,
                   sysvars, parvars, fieldvars>>

\* one call of next() on the iterator
IterNextAct ==
    /\ itst = "running"
    /\ Len(ppts) < MaxIter
    /\ \E o \in IterNextOutcomes(itv, Upper(cdom), SDStepSize(cdom)) :
        /\ itst' = CASE o.kind = "None" -> "done"
                     [] o.kind = "panic" -> "panic"
                     [] o.kind = "Some" -> "running"
        /\ itv' = o.value
        /\ ppts' = IF o.kind = "Some" THEN Append(ppts, o.item) ELSE ppts
    /\ UNCHANGED <<core, algvars, cons, cdom, probe, px, pin, carg, cpre,
                   sysvars, parvars, fieldvars>>

NextIter ==
    \/ WithStepSizeAct \/ TranslateAct \/ UnionAct \/ IntersectAct
    \/ IterNewAct \/ IterNextAct

SpecIter == InitIter /\ [][NextIter]_vars

\* The point lower + k * step of a subdomain, and whether it is a
\* coordinate at all (for i32, whether the sum is in range).
HasKth(d, k) == IsFinite(d) => ~I32Overflows(Lower(d), k)
Kth(d, k) ==
    IF k = 0 THEN Lower(d)
    ELSE IF IsFinite(d) THEN Lower(d) + k
    ELSE F32Add(d.lower, F32Mul(k, d.step_size))

\* C23: for a subdomain with step > 0, iter() yields in strictly increasing
\* order exactly the points lower + k * step, k = 0, 1, 2, ..., that are
\* <= upper, and nothing else; every yielded point satisfies contains(),
\* and a subdomain with lower > upper yields nothing.
C23_IterIsClosedArithmeticSequence ==
    (itst # "idle" /\ DomGt(SDStepSize(cdom), 0)) =>
        /\ \A i \in 1..Len(ppts) :
            /\ HasKth(cdom, i - 1)
            /\ ppts[i] = Kth(cdom, i - 1)
            /\ DomLe(ppts[i], Upper(cdom))
            /\ SDContains(cdom, ppts[i])
        /\ \A i \in 1..(Len(ppts) - 1) : DomLt(ppts[i], ppts[i + 1])
        /\ itst = "done" =>
               ~(HasKth(cdom, Len(ppts)) /\ DomLe(Kth(cdom, Len(ppts)), Upper(cdom)))
        /\ itst # "panic"
        /\ DomGt(Lower(cdom), Upper(cdom)) => ppts = <<>>

\* The iterator can never return None: no coordinate exceeds its upper
\* bound, or it yields a point and its value stays what it is.
CannotStop ==
    /\ itst = "running"
    /\ \/ Upper(cdom) = DomainLast
       \/ (sig = "WF1D" /\ Upper(cdom) = NAN)
       \/ \A o \in IterNextOutcomes(itv, Upper(cdom), SDStepSize(cdom)) :
              o.kind = "Some" /\ o.value = itv

\* C24: iterating a subdomain built with all(), none(), union,
\* intersection, translate and with_step_size (zero and negative steps and
\* FiniteSubDomain::all() included) yields finitely many points and then
\* stops, so that apply terminates: the iterator does not panic and is
\* never in a state from which next() cannot return None.
C24_IterationTerminates == itst # "panic" /\ ~CannotStop

\* C25: for SubDomain1D and FiniteSubDomain, with_step_size(s) leaves the
\* bounds unchanged and rebinds the step: step_size() of the result is s
\* and iteration advances by s.
C25_WithStepSizeRebindsStep ==
    cons = "with_step_size" =>
        /\ Lower(cdom) = Lower(cpre)
        /\ Upper(cdom) = Upper(cpre)
        /\ SDStepSize(cdom) = carg
        /\ \A i \in 1..(Len(ppts) - 1) : ppts[i + 1] = DomAdd(ppts[i], carg)

\* The operations that leave the subdomain alone.
FrameOps == {"scale", "neg", "translate_time", "adjoint", "to_adjoint"}

\* C26: scale, neg, translate_time, adjoint and to_adjoint leave the
\* subdomain alone: the result's lower, upper and step are the operand's;
\* WFKet::adjoint(&k) leaves k unchanged and returns the bra k.to_adjoint()
\* returns.
C26_SubdomainLeftAlone ==
    [][(op.name = "none" /\ op'.name \in FrameOps) =>
          /\ res'.subdomain = k1.subdomain
          /\ Lower(res'.subdomain) = Lower(k1.subdomain)
          /\ Upper(res'.subdomain) = Upper(k1.subdomain)
          /\ SDStepSize(res'.subdomain) = SDStepSize(k1.subdomain)
          /\ op'.name = "adjoint" => (k1' = k1 /\ res' = KetToAdjoint(k1))]_vars

\* translate_time was applied to a ket over more than one point.
C26_Witness ==
    /\ op.name = "translate_time"
    /\ Lower(k1.subdomain) < Upper(k1.subdomain)
    /\ res.subdomain = k1.subdomain

(***************************************************************************)
(* Evaluation of Sum and WeightedSum nodes, on the pointwise runs.         *)
(***************************************************************************)
\* The value at (x, t) of the i-th operand of the operation.
ChildVal(i, x) == WFEval(Obj(op.args[i]).wavefunction, x, t)

\* C27: a Sum node evaluates to the sum of its children's values starting
\* from the field's zero, a WeightedSum node to the sum of coefficient times
\* child value; with no children both evaluate to zero at every (x, t), and
\* a WeightedSum with the single entry (c, op) evaluates like Scale(c, op).
C27_SumNodesFoldFromZero ==
    \A x \in XProbe :
        LET n == Len(op.args)
            v == WFEval(res.wavefunction, x, t)
        IN  /\ op.name = "sum" =>
                /\ res.wavefunction.kind = "Sum"
                /\ v = CSumFn([i \in 1..n |-> ChildVal(i, x)], 1..n)
                /\ n = 0 => v = CZero
            /\ op.name = "weighted_sum" =>
                /\ res.wavefunction.kind = "WeightedSum"
                /\ v = CSumFn([i \in 1..n |-> CMul(op.cs[i], ChildVal(i, x))], 1..n)
                /\ n = 0 => v = CZero
                /\ n = 1 => v = WFEval(WFOpScale(op.cs[1], Obj(op.args[1]).wavefunction), x, t)
            /\ (op.name \in {"sum", "weighted_sum"} /\ fw = "res" /\ fx = x
                    /\ SDContains(res.subdomain, x)) => fval = v

\* A weighted sum of two kets with a coefficient other than one was
\* evaluated inside its subdomain and is not zero.
C27_Witness ==
    /\ op.name = "weighted_sum"
    /\ Len(op.args) = 2
    /\ op.cs[1] # COne
    /\ fw = "res"
    /\ SDContains(res.subdomain, fx)
    /\ fval # CZero

(***************************************************************************)
(* Subdomain algebra runs: three subdomains, each an interval, all() or    *)
(* none(), are the subdomains of three kets passed in some order to        *)
(* VectorSpace::sum or weighted_sum, or are multiplied together in some    *)
(* order.                                                                  *)
(***************************************************************************)
Perms3 == {<<1, 2, 3>>, <<1, 3, 2>>, <<2, 1, 3>>, <<2, 3, 1>>, <<3, 1, 2>>, <<3, 2, 1>>}

InitAlg ==
    /\ sig \in Signatures
    /\ IdleCore
    /\ IdleDom
    /\ IdleSys
    /\ IdlePar
    /\ IdleField
    /\ da \in Operands
    /\ db \in Operands
    /\ dc \in Operands
    /\ dcall = "none"
    /\ dperm = <<>>
    /\ dout = SDNone

\* The three kets, in the order p.
KetsOver(p) ==
    LET ds == <<da, db, dc>>
    IN  [i \in 1..3 |-> [wavefunction |-> WFFunc("p"), subdomain |-> ds[p[i]]]]

Combine(name, p, r) ==
    /\ dcall = "none"
    /\ dcall' = name
    /\ dperm' = p
    /\ dout' = r
    /\ UNCHANGED <<core, domvars, sysvars, parvars, fieldvars, da, db, dc>>

\* WFKet::sum(vec![..]).subdomain
SumOrderAct == \E p \in Perms3 : Combine("sum", p, KetSum(KetsOver(p)).subdomain)

\* WFKet::weighted_sum(vec![..]).subdomain
WeightedSumOrderAct ==
    \E p \in Perms3 :
        Combine("weighted_sum", p,
                KetWeightedSum(<<COne, COne, COne>>, KetsOver(p)).subdomain)

\* (x * y) * z
ProductAct ==
    \E p \in Perms3 :
        LET ks == KetsOver(p)
        IN  Combine("product", p,
                    SDMul(SDMul(ks[1].subdomain, ks[2].subdomain), ks[3].subdomain))

NextAlg == SumOrderAct \/ WeightedSumOrderAct \/ ProductAct

SpecAlg == InitAlg /\ [][NextAlg]_vars

\* C28: subdomain union (+) and intersection are each commutative,
\* associative and idempotent on (lower, upper, step), so the subdomain of
\* VectorSpace::sum or weighted_sum over a non-empty list does not depend
\* on the order of the operands.
C28_UnionAndIntersectionAreSemilattices ==
    /\ SDAdd(da, db) = SDAdd(db, da)
    /\ SDMul(da, db) = SDMul(db, da)
    /\ SDAdd(SDAdd(da, db), dc) = SDAdd(da, SDAdd(db, dc))
    /\ SDMul(SDMul(da, db), dc) = SDMul(da, SDMul(db, dc))
    /\ SDAdd(da, da) = da
    /\ SDMul(da, da) = da
    /\ dcall \in {"sum", "weighted_sum"} => dout = SDAdd(SDAdd(da, db), dc)
    /\ dcall = "product" => dout = SDMul(SDMul(da, db), dc)

\* Three kets with three different subdomains were summed in an order
\* other than the first.
C28_Witness ==
    /\ dcall = "sum"
    /\ dperm = <<3, 1, 2>>
    /\ da # db
    /\ db # dc
    /\ da # dc
    /\ Upper(da) < Upper(db)
    /\ Lower(dc) < Lower(da)
    /\ dout = [lower |-> Lower(dc), upper |-> Upper(db), step_size |-> 1]

(***************************************************************************)
(* Symmetry runs: the bra is the adjoint of k2 and is applied to k1, to k2 *)
(* and to a sum, a difference or a multiple built from them.               *)
(***************************************************************************)
NextSym == AddAct \/ SubAct \/ ScaleAct \/ ApplyAct

SpecSym == InitPoint /\ [][NextSym]_vars

\* C29: the inner product is conjugate-symmetric: for kets a and b and
\* every time t, adjoint(a).apply(b, t) is the conjugate of
\* adjoint(b).apply(a, t).
C29_InnerProductIsConjugateSymmetric ==
    applied # "none" =>
        /\ bra = KetAdjoint(k2)
        /\ val = CConj(BraApply(KetAdjoint(Obj(applied)), k2, t))

\* The adjoint of k2 was applied to k1, whose subdomain is another one, and
\* the product has an imaginary part.
C29_Witness ==
    /\ applied = "k1"
    /\ k1.subdomain # k2.subdomain
    /\ val[2] # 0
    /\ val[1] # 0

(***************************************************************************)
(* The subdomain of an evolved ket, on the system runs.                    *)
(***************************************************************************)
\* d is the union of the subdomains of the eigenstates lo..hi of the
\* system: the smallest lower bound, the largest upper bound and the
\* smallest step among them.
IsUnionOfEigenstates(d, lo, hi) ==
    LET E(n) == Eigenstate(sys, n).ket.subdomain
    IN  /\ \A n \in lo..hi :
            /\ Lower(d) <= Lower(E(n))
            /\ Upper(d) >= Upper(E(n))
            /\ SDStepSize(d) <= SDStepSize(E(n))
        /\ \E n \in lo..hi : Lower(d) = Lower(E(n))
        /\ \E n \in lo..hi : Upper(d) = Upper(E(n))
        /\ \E n \in lo..hi : SDStepSize(d) = SDStepSize(E(n))

\* C30: the ket returned by evolution over a non-empty index range has the
\* union of the subdomains of the eigenstates in the range as its
\* subdomain, whatever the subdomain of initial_state is, and initial_state
\* is left unchanged.
C30_EvolvedSubdomainIsEigenstateUnion ==
    [][(call = "none" /\ call' = "evolution" /\ out'.kind = "ket"
            /\ (IF sys.kind = "TwoState" THEN nlo' ELSE 1) <= nhi') =>
          /\ IsUnionOfEigenstates(out'.ket.subdomain,
                                  IF sys.kind = "TwoState" THEN nlo' ELSE 1, nhi')
          /\ k1' = k1]_vars

\* A well's evolution over two eigenstates was taken from an initial state
\* whose subdomain is narrower than the well and has another step.
C30_Witness ==
    /\ call = "evolution"
    /\ sys.kind = "InfiniteSquareWell"
    /\ nhi = 2
    /\ out.kind = "ket"
    /\ Upper(k1.subdomain) < Upper(out.ket.subdomain)
    /\ SDStepSize(k1.subdomain) # SDStepSize(out.ket.subdomain)

====
